---------------------------- MODULE Spec2Model ----------------------------
(***************************************************************************)
(* Transaction processing core of Server-Pulsa-App:                        *)
(*   transactionRepository.Create  (order submission, one db transaction)  *)
(*   transactionRepository.GetAll  (orders of a user's merchant)           *)
(*   transactionRepository.GetById (one order)                             *)
(* over a relational store with row locks (SELECT ... FOR UPDATE).         *)
(* Amounts (balance, nominal, price) are whole numbers of currency units.  *)
(***************************************************************************)
EXTENDS Integers, Sequences, FiniteSets, TLC

(***************************************************************************)
(* Bounds of the model.                                                    *)
(***************************************************************************)
\* Order lines a caller puts in one order.
MaxLines == 2
\* Orders, and order lines over all orders, in the store the read paths are
\* run against.
MaxOrders == 2
MaxRows == 4

None == "none"

\* The requests served concurrently: each has a goroutine of its own, which
\* calls Create once.
Procs == {"r1", "r2"}

(***************************************************************************)
(* Store content the model starts from: mst_merchant, mst_user,            *)
(* mst_product.  "m0" and "p0" are identifiers with no row.                *)
(***************************************************************************)
MerchantRows == {"m1", "m2"}
MerchantIds == MerchantRows \cup {"m0"}
Users == {"u1", "u2"}
ProductRows == {"p1", "p2"}
ProductIds == ProductRows \cup {"p0"}

InitBalance == [m \in MerchantRows |-> IF m = "m1" THEN 15 ELSE 5]
MerchantOwner == [m \in MerchantRows |-> IF m = "m1" THEN "u1" ELSE "u2"]
ProductNominal == [q \in ProductRows |-> IF q = "p1" THEN 5 ELSE 10]
ProductPrice == [q \in ProductRows |-> IF q = "p1" THEN 6 ELSE 12]

\* Users whose requests submit orders, and the price a caller sends with a line.
CallerUsers == {"u1"}
CallerPrices == {99}

(***************************************************************************)
(* Dates.  A date string is a sequence of one-character strings; a parsed  *)
(* date is [year, month, day].                                             *)
(***************************************************************************)
Digits == <<"0", "1", "2", "3", "4", "5", "6", "7", "8", "9">>

isDigit(s, k) == k <= Len(s) /\ \E d \in 1..10 : Digits[d] = s[k]

DigitVal(c) == (CHOOSE d \in 1..10 : Digits[d] = c) - 1

isLeap(year) == year % 4 = 0 /\ (year % 100 # 0 \/ year % 400 = 0)

daysIn(month, year) ==
    IF month = 2 THEN (IF isLeap(year) THEN 29 ELSE 28)
    ELSE IF month \in {4, 6, 9, 11} THEN 30 ELSE 31

NoDate == [ok |-> FALSE, year |-> 0, month |-> 0, day |-> 0]

\* Mutant: the error of time.Parse is ignored.
ParseDateLenient(s) == [ok |-> TRUE, year |-> 2024, month |-> 1, day |-> 15]

\* time.Parse("02-01-2006", s): two digits, "-", two digits, "-", four
\* digits, nothing after; month 1..12, day 1..daysIn(month, year).
ParseDate(s) ==
    IF ~(isDigit(s, 1) /\ isDigit(s, 2)) THEN NoDate
    ELSE IF ~(Len(s) >= 3 /\ s[3] = "-") THEN NoDate
    ELSE IF ~(isDigit(s, 4) /\ isDigit(s, 5)) THEN NoDate
    ELSE IF ~(Len(s) >= 6 /\ s[6] = "-") THEN NoDate
    ELSE IF ~(Len(s) >= 10 /\ \A k \in 7..10 : isDigit(s, k)) THEN NoDate
    ELSE IF Len(s) > 10 THEN NoDate
    ELSE LET day == 10 * DigitVal(s[1]) + DigitVal(s[2])
             month == 10 * DigitVal(s[4]) + DigitVal(s[5])
             year == 1000 * DigitVal(s[7]) + 100 * DigitVal(s[8])
                     + 10 * DigitVal(s[9]) + DigitVal(s[10])
         IN IF month <= 0 \/ 12 < month THEN NoDate
            ELSE IF day < 1 \/ day > daysIn(month, year) THEN NoDate
            ELSE [ok |-> TRUE, year |-> year, month |-> month, day |-> day]

\* Mutant: the layout "2006-01-02".
FormatDateYearFirst(t) ==
    << Digits[((t.year \div 1000) % 10) + 1], Digits[((t.year \div 100) % 10) + 1],
       Digits[((t.year \div 10) % 10) + 1], Digits[(t.year % 10) + 1], "-",
       Digits[(t.month \div 10) + 1], Digits[(t.month % 10) + 1], "-",
       Digits[(t.day \div 10) + 1], Digits[(t.day % 10) + 1] >>

\* Time.Format("02-01-2006") for a year of 0..9999.
FormatDate(t) ==
    << Digits[(t.day \div 10) + 1], Digits[(t.day % 10) + 1], "-",
       Digits[(t.month \div 10) + 1], Digits[(t.month % 10) + 1], "-",
       Digits[((t.year \div 1000) % 10) + 1], Digits[((t.year \div 100) % 10) + 1],
       Digits[((t.year \div 10) % 10) + 1], Digits[(t.year % 10) + 1] >>

\* Date strings a caller sends: well-formed ones, and malformed ones.
MainDate == << "1", "5", "-", "0", "1", "-", "2", "0", "2", "4" >>   \* 15-01-2024

GoodDates ==
    { MainDate,
      << "2", "9", "-", "0", "2", "-", "2", "0", "2", "4" >>,   \* 29-02-2024
      << "3", "1", "-", "1", "2", "-", "0", "9", "9", "9" >> }  \* 31-12-0999

BadDates ==
    { << "2", "0", "2", "4", "-", "0", "1", "-", "1", "5" >>,   \* 2024-01-15
      << "2", "9", "-", "0", "2", "-", "2", "0", "2", "3" >>,   \* 29-02-2023
      << "0", "0", "-", "0", "1", "-", "2", "0", "2", "4" >>,   \* 00-01-2024
      << "1", "5", "-", "1", "3", "-", "2", "0", "2", "4" >>,   \* 15-13-2024
      << "5", "-", "1", "-", "2", "0", "2", "4" >>,             \* 5-1-2024
      << "1", "5", "/", "0", "1", "/", "2", "0", "2", "4" >>,   \* 15/01/2024
      << "1", "5", "-", "0", "1", "-", "2", "4" >>,             \* 15-01-24
      << "1", "5", "-", "0", "1", "-", "2", "0", "2", "4", "x" >>, \* 15-01-2024x
      << >> }                                                   \* empty

\* transaction_date DESC compares calendar dates.
DateKey(t) == t.year * 10000 + t.month * 100 + t.day

(***************************************************************************)
(* State.                                                                  *)
(***************************************************************************)
VARIABLES
    balance,              \* mst_merchant.balance, committed, by id_merchant
    mst_product,          \* rows of table mst_product, by id_product
    transactions,         \* committed rows of table transactions
    transaction_detail,   \* committed rows of table transaction_detail
    lock,                 \* row lock of each mst_merchant row: its holder or None
    nextTransactionId,    \* generator of transactions.transaction_id
    nextDetailId,         \* generator of transaction_detail.transaction_detail_id
    pc,                   \* position of each goroutine inside Create
    arg,                  \* the order as the caller passed it
    payload,              \* Create's parameter (its lines share the caller's array)
    parsedDate,           \* local parsedDate
    txn,                  \* the goroutine's *sql.Tx: state and uncommitted writes
    currentBalance,       \* local currentBalance
    totalNominal,         \* local totalNominal
    idx,                  \* position of the running loop over the lines
    ret,                  \* what Create returned: [order, err]
    ops,                  \* store operations issued by the current call
    startBal,             \* committed balance of the merchant when the call started
    rd,                   \* the read path in progress (GetAll / GetById)
    dt                    \* a date string on its way through Parse and Format

storeVars == <<balance, mst_product, transactions, transaction_detail, lock,
               nextTransactionId, nextDetailId>>
createVars == <<pc, arg, payload, parsedDate, txn, currentBalance,
                totalNominal, idx, ret, ops, startBal>>
vars == <<balance, mst_product, transactions, transaction_detail, lock,
          nextTransactionId, nextDetailId, pc, arg, payload, parsedDate, txn,
          currentBalance, totalNominal, idx, ret, ops, startBal, rd, dt>>

\* Zero value of a generated identifier (the empty string in Go).
NoId == 0

\* entity.Transactions{}
ZeroTransactions ==
    [TransactionsId |-> NoId, MerchantId |-> "", UserId |-> "",
     CustomerName |-> "", DestinationNumber |-> "",
     TransactionDate |-> <<>>, TransactionDetail |-> <<>>]

\* A line as a caller sends it.
CallerLines ==
    [ProductId : ProductIds, Price : CallerPrices,
     TransactionDetailId : {NoId}, TransactionsId : {NoId}]

\* Line lists a caller sends.  The first loop of Create stops at the first
\* product without a row, so such a product is the last of its list.
CallerDetails ==
    {d \in UNION {[1..n -> CallerLines] : n \in 0..MaxLines} :
        \A k \in 1..(Len(d) - 1) : d[k].ProductId \in ProductRows}

\* The line list sent with the orders that Create rejects before its loops.
SampleDetail ==
    << [ProductId |-> "p1", Price |-> 99, TransactionDetailId |-> NoId,
        TransactionsId |-> NoId] >>

\* Orders a caller submits: for a merchant with a row, every line list; for
\* the merchant without a row and for each other date string, one order.
CallerOrders ==
    [TransactionsId : {NoId}, MerchantId : MerchantRows, UserId : CallerUsers,
     CustomerName : {"budi"}, DestinationNumber : {"0812"},
     TransactionDate : {MainDate}, TransactionDetail : CallerDetails]
    \cup
    [TransactionsId : {NoId}, MerchantId : MerchantIds \ MerchantRows,
     UserId : CallerUsers, CustomerName : {"budi"}, DestinationNumber : {"0812"},
     TransactionDate : {MainDate}, TransactionDetail : {SampleDetail}]
    \cup
    [TransactionsId : {NoId}, MerchantId : {"m1"}, UserId : CallerUsers,
     CustomerName : {"budi"}, DestinationNumber : {"0812"},
     TransactionDate : (GoodDates \cup BadDates) \ {MainDate},
     TransactionDetail : {SampleDetail}]

\* The balance a transaction holds when it has written none.
NoBalance == -1

NoTx == [state |-> "none", transactions |-> {}, transaction_detail |-> {},
         balance |-> NoBalance]

\* custom.TransactionsReq{}
ZeroTransactionsReq ==
    [TransactionsId |-> NoId, CustomerName |-> "", DestinationNumber |-> "",
     TransactionDate |-> NoDate, User |-> [Id_user |-> ""],
     Merchant |-> [IdMerchant |-> ""], TransactionDetail |-> <<>>]

\* No read in progress.
NoRead ==
    [op |-> None, pc |-> "idle", param |-> None, rest |-> {}, cur |-> None,
     delivered |-> <<>>, map |-> <<>>, transaction |-> ZeroTransactionsReq,
     rowsErr |-> FALSE, result |-> None, err |-> None]

\* The rows of mst_product.
InitProducts ==
    [q \in ProductRows |-> [nominal |-> ProductNominal[q], price |-> ProductPrice[q]]]

\* No date string under way.
NoDateRun == [pc |-> "idle", in |-> <<>>, parsed |-> NoDate, out |-> <<>>,
              reparsed |-> NoDate]

InitStore ==
    /\ balance = InitBalance
    /\ mst_product = InitProducts
    /\ transactions = {}
    /\ transaction_detail = {}
    /\ lock = [m \in MerchantRows |-> None]
    /\ nextTransactionId = 1
    /\ nextDetailId = 1

InitCreate ==
    /\ pc = [p \in Procs |-> "idle"]
    /\ arg = [p \in Procs |-> ZeroTransactions]
    /\ payload = [p \in Procs |-> ZeroTransactions]
    /\ parsedDate = [p \in Procs |-> NoDate]
    /\ txn = [p \in Procs |-> NoTx]
    /\ currentBalance = [p \in Procs |-> 0]
    /\ totalNominal = [p \in Procs |-> 0]
    /\ idx = [p \in Procs |-> 0]
    /\ ret = [p \in Procs |-> [order |-> ZeroTransactions, err |-> None]]
    /\ ops = [p \in Procs |-> 0]
    /\ startBal = [p \in Procs |-> 0]

Init == InitStore /\ InitCreate /\ rd = NoRead /\ dt = NoDateRun

(***************************************************************************)
(* Create.                                                                 *)
(***************************************************************************)
NLines(p) == Len(payload[p].TransactionDetail)

\* return entity.Transactions{}, err
ReturnError(p, kind) ==
    /\ pc' = [pc EXCEPT ![p] = "done"]
    /\ ret' = [ret EXCEPT ![p] = [order |-> ZeroTransactions, err |-> kind]]

\* Mutant: the error branch returns without tx.Rollback().
RollbackForgotten(p) == UNCHANGED <<txn, lock>>

\* tx.Rollback(): the uncommitted writes are dropped, the row locks released.
Rollback(p) ==
    /\ txn' = [txn EXCEPT ![p] = [NoTx EXCEPT !.state = "rolledback"]]
    /\ lock' = [m \in MerchantRows |-> IF lock[m] = p THEN None ELSE lock[m]]

\* A QueryRow(...).Scan of the open transaction returns an error:
\* tx.Rollback(), log, return the zero order and the error.
FailInTx(p) ==
    /\ Rollback(p)
    /\ ops' = [ops EXCEPT ![p] = @ + 2]
    /\ ReturnError(p, "storage")
    /\ UNCHANGED <<balance, transactions, transaction_detail, nextTransactionId,
                   nextDetailId, arg, payload, parsedDate, currentBalance,
                   totalNominal, idx, startBal, rd, dt,
                   mst_product>>

\* Entry of Create: the caller's order is bound to payload, the date parsed.
Submit(p) ==
    /\ pc[p] = "idle"
    /\ \E order \in CallerOrders :
         LET d == ParseDate(order.TransactionDate) IN
         /\ arg' = [arg EXCEPT ![p] = order]
         /\ payload' = [payload EXCEPT ![p] = order]
         /\ parsedDate' = [parsedDate EXCEPT ![p] = d]
         /\ startBal' = [startBal EXCEPT ![p] =
                IF order.MerchantId \in MerchantRows
                THEN balance[order.MerchantId] ELSE 0]
         /\ IF d.ok
            THEN /\ pc' = [pc EXCEPT ![p] = "begin"]
                 /\ ret' = [ret EXCEPT ![p] = [order |-> ZeroTransactions, err |-> None]]
            ELSE ReturnError(p, "validation")
    /\ txn' = [txn EXCEPT ![p] = NoTx]
    /\ currentBalance' = [currentBalance EXCEPT ![p] = 0]
    /\ totalNominal' = [totalNominal EXCEPT ![p] = 0]
    /\ idx' = [idx EXCEPT ![p] = 0]
    /\ ops' = [ops EXCEPT ![p] = 0]
    /\ UNCHANGED <<storeVars, rd, dt>>

\* tx, err := r.db.Begin()
Begin(p) ==
    /\ pc[p] = "begin"
    /\ ops' = [ops EXCEPT ![p] = @ + 1]
    /\ \/ /\ txn' = [txn EXCEPT ![p] = [NoTx EXCEPT !.state = "open"]]
          /\ pc' = [pc EXCEPT ![p] = "balance"]
          /\ UNCHANGED ret
       \/ /\ ReturnError(p, "storage")
          /\ UNCHANGED txn
    /\ UNCHANGED <<storeVars, arg, payload, parsedDate, currentBalance,
                   totalNominal, idx, startBal, rd, dt>>

\* Mutant: the balance is read without waiting for the row lock.
RowLockIgnored(m, p) == TRUE

\* The row lock of merchant m can be taken by p: nobody else holds it.
RowLockFree(m, p) == lock[m] \in {None, p}

\* SELECT balance FROM mst_merchant WHERE id_merchant = $1 FOR UPDATE
\* waits for the row lock, takes it, and reads the committed balance.
SelectBalanceForUpdate(p) ==
    /\ pc[p] = "balance"
    /\ \/ FailInTx(p)
       \/ /\ payload[p].MerchantId \notin MerchantRows      \* sql.ErrNoRows
          /\ FailInTx(p)
       \/ /\ payload[p].MerchantId \in MerchantRows
          /\ RowLockFree(payload[p].MerchantId, p)
          /\ lock' = [lock EXCEPT ![payload[p].MerchantId] = p]
          /\ currentBalance' = [currentBalance EXCEPT ![p] = balance[payload[p].MerchantId]]
          /\ totalNominal' = [totalNominal EXCEPT ![p] = 0]
          /\ idx' = [idx EXCEPT ![p] = 1]
          /\ pc' = [pc EXCEPT ![p] = IF NLines(p) = 0 THEN "funds" ELSE "nominal"]
          /\ ops' = [ops EXCEPT ![p] = @ + 1]
          /\ UNCHANGED <<balance, transactions, transaction_detail, nextTransactionId,
                         nextDetailId, arg, payload, parsedDate, txn, ret,
                         startBal, rd, dt,
                   mst_product>>

\* One turn of the first loop: SELECT nominal FROM mst_product WHERE id_product = $1
SelectNominal(p) ==
    /\ pc[p] = "nominal"
    /\ LET product == payload[p].TransactionDetail[idx[p]].ProductId IN
       \/ FailInTx(p)
       \/ /\ product \notin ProductRows                     \* sql.ErrNoRows
          /\ FailInTx(p)
       \/ /\ product \in ProductRows
          /\ totalNominal' = [totalNominal EXCEPT ![p] = @ + mst_product[product].nominal]
          /\ idx' = [idx EXCEPT ![p] = @ + 1]
          /\ pc' = [pc EXCEPT ![p] = IF idx[p] = NLines(p) THEN "funds" ELSE "nominal"]
          /\ ops' = [ops EXCEPT ![p] = @ + 1]
          /\ UNCHANGED <<storeVars, arg, payload, parsedDate, txn,
                         currentBalance, ret, startBal, rd, dt>>

\* Mutant: the operands of the funds check swapped.
InsufficientBalanceSwapped(current, total) == total < current

\* Mutant: no funds check.
InsufficientBalanceNever(current, total) == FALSE

\* if currentBalance < totalNominal
InsufficientBalance(current, total) == current < total

CheckFunds(p) ==
    /\ pc[p] = "funds"
    /\ IF InsufficientBalance(currentBalance[p], totalNominal[p])
       THEN /\ Rollback(p)
            /\ ReturnError(p, "insufficient")
            /\ ops' = [ops EXCEPT ![p] = @ + 1]
            /\ UNCHANGED <<balance, transactions, transaction_detail>>
       ELSE /\ pc' = [pc EXCEPT ![p] = "header"]
            /\ UNCHANGED <<balance, transactions, transaction_detail, lock, txn, ret, ops>>
    /\ UNCHANGED <<nextTransactionId, nextDetailId, arg, payload, parsedDate,
                   currentBalance, totalNominal, idx, startBal, rd, dt,
                   mst_product>>

\* INSERT INTO transactions (...) VALUES (...) RETURNING transaction_id
InsertTransaction(p) ==
    /\ pc[p] = "header"
    /\ \/ FailInTx(p)
       \/ /\ txn' = [txn EXCEPT ![p].transactions = @ \cup
                {[transaction_id |-> nextTransactionId,
                  id_merchant |-> payload[p].MerchantId,
                  id_user |-> payload[p].UserId,
                  customer_name |-> payload[p].CustomerName,
                  destination_number |-> payload[p].DestinationNumber,
                  transaction_date |-> parsedDate[p]]}]
          /\ nextTransactionId' = nextTransactionId + 1
          /\ payload' = [payload EXCEPT ![p].TransactionsId = nextTransactionId]
          /\ idx' = [idx EXCEPT ![p] = 1]
          /\ pc' = [pc EXCEPT ![p] = IF NLines(p) = 0 THEN "update" ELSE "line"]
          /\ ops' = [ops EXCEPT ![p] = @ + 1]
          /\ UNCHANGED <<balance, transactions, transaction_detail, lock, nextDetailId,
                         arg, parsedDate, currentBalance, totalNominal, ret,
                         startBal, rd, dt,
                   mst_product>>

\* The price written into the transaction_detail row of line i.
InsertedPrice(p, i) == payload[p].TransactionDetail[i].Price

\* One turn of the second loop, first half:
\* INSERT INTO transaction_detail (transaction_id, id_product, price) ...
InsertTransactionDetail(p) ==
    /\ pc[p] = "line"
    /\ \/ FailInTx(p)
       \/ /\ txn' = [txn EXCEPT ![p].transaction_detail = @ \cup
                {[transaction_detail_id |-> nextDetailId,
                  transaction_id |-> payload[p].TransactionsId,
                  id_product |-> payload[p].TransactionDetail[idx[p]].ProductId,
                  price |-> InsertedPrice(p, idx[p])]}]
          /\ nextDetailId' = nextDetailId + 1
          /\ payload' = [payload EXCEPT
                ![p].TransactionDetail[idx[p]].TransactionDetailId = nextDetailId,
                ![p].TransactionDetail[idx[p]].TransactionsId = payload[p].TransactionsId]
          /\ pc' = [pc EXCEPT ![p] = "price"]
          /\ ops' = [ops EXCEPT ![p] = @ + 1]
          /\ UNCHANGED <<balance, transactions, transaction_detail, lock,
                         nextTransactionId, arg, parsedDate, currentBalance,
                         totalNominal, idx, ret, startBal, rd, dt,
                   mst_product>>

\* Mutant: the nominal column is read where the price column is meant.
ReturnedPriceIsNominal(product) == mst_product[product].nominal

\* The price Create puts into the returned line of a product.
ReturnedPrice(product) == mst_product[product].price

\* Second half: SELECT price FROM mst_product WHERE id_product = $1
SelectPrice(p) ==
    /\ pc[p] = "price"
    /\ LET product == payload[p].TransactionDetail[idx[p]].ProductId IN
       \/ FailInTx(p)
       \/ /\ product \notin ProductRows                     \* sql.ErrNoRows
          /\ FailInTx(p)
       \/ /\ product \in ProductRows
          /\ payload' = [payload EXCEPT
                ![p].TransactionDetail[idx[p]].Price = ReturnedPrice(product)]
          /\ idx' = [idx EXCEPT ![p] = @ + 1]
          /\ pc' = [pc EXCEPT ![p] = IF idx[p] = NLines(p) THEN "update" ELSE "line"]
          /\ ops' = [ops EXCEPT ![p] = @ + 1]
          /\ UNCHANGED <<storeVars, arg, parsedDate, txn, currentBalance,
                         totalNominal, ret, startBal, rd, dt>>

\* Mutant: the amount is added.
DebitAdds(bal, amount) == bal + amount

\* Mutant: the balance is written back as it was.
DebitNothing(bal, amount) == bal

\* SET balance = balance - $1
Debit(bal, amount) == bal - amount

\* Mutant: the UPDATE has no WHERE clause.
UpdatedRowsAll(m) == MerchantRows

\* WHERE id_merchant = $2: the rows of mst_merchant the UPDATE writes.
UpdatedRows(m) == {m}

\* UPDATE mst_merchant SET balance = balance - $1 WHERE id_merchant = $2
\* RETURNING balance: needs the row lock, works on the committed row.
UpdateMerchantBalance(p) ==
    /\ pc[p] = "update"
    /\ \/ FailInTx(p)
       \/ /\ payload[p].MerchantId \in MerchantRows
          /\ RowLockFree(payload[p].MerchantId, p)
          /\ lock' = [lock EXCEPT ![payload[p].MerchantId] = p]
          /\ txn' = [txn EXCEPT ![p].balance =
                Debit(balance[payload[p].MerchantId], totalNominal[p])]
          /\ pc' = [pc EXCEPT ![p] = "commit"]
          /\ ops' = [ops EXCEPT ![p] = @ + 1]
          /\ UNCHANGED <<balance, transactions, transaction_detail, nextTransactionId,
                         nextDetailId, arg, payload, parsedDate, currentBalance,
                         totalNominal, idx, ret, startBal, rd, dt,
                   mst_product>>

\* Mutant: the rows were written outside the transaction and stay.
FailedCommitKeepsWrites(rows) == rows

\* What a commit that returns an error leaves of the transaction's writes.
FailedCommitWrites(rows) == {}

\* tx.Commit()
Commit(p) ==
    /\ pc[p] = "commit"
    /\ ops' = [ops EXCEPT ![p] = @ + 1]
    /\ lock' = [m \in MerchantRows |-> IF lock[m] = p THEN None ELSE lock[m]]
    /\ \/ \* the commit succeeds: the writes become the committed state
          /\ balance' = [o \in MerchantRows |->
                IF o \in UpdatedRows(payload[p].MerchantId)
                THEN txn[p].balance ELSE balance[o]]
          /\ transactions' = transactions \cup txn[p].transactions
          /\ transaction_detail' = transaction_detail \cup txn[p].transaction_detail
          /\ txn' = [txn EXCEPT ![p] = [NoTx EXCEPT !.state = "committed"]]
          /\ payload' = [payload EXCEPT ![p].TransactionDate = FormatDate(parsedDate[p])]
          /\ pc' = [pc EXCEPT ![p] = "done"]
          /\ ret' = [ret EXCEPT ![p] = [order |-> payload'[p], err |-> None]]
       \/ \* the commit returns an error: the transaction is over, nothing is kept
          /\ transactions' = transactions \cup FailedCommitWrites(txn[p].transactions)
          /\ transaction_detail' =
                transaction_detail \cup FailedCommitWrites(txn[p].transaction_detail)
          /\ txn' = [txn EXCEPT ![p] = [NoTx EXCEPT !.state = "rolledback"]]
          /\ ReturnError(p, "storage")
          /\ UNCHANGED <<balance, payload>>
    /\ UNCHANGED <<nextTransactionId, nextDetailId, arg, parsedDate,
                   currentBalance, totalNominal, idx, startBal, rd, dt,
                   mst_product>>

\* The caller's order as the caller sees it: Create gets the struct by
\* value, so the header fields are the caller's own, while the slice
\* TransactionDetail of the copy points to the caller's array of lines, and
\* an assignment to payload.TransactionDetail[i] writes the caller's line.
CallerOrder(p) == [arg[p] EXCEPT !.TransactionDetail = payload[p].TransactionDetail]

Create(p) ==
    \/ Submit(p)
    \/ Begin(p)
    \/ SelectBalanceForUpdate(p)
    \/ SelectNominal(p)
    \/ CheckFunds(p)
    \/ InsertTransaction(p)
    \/ InsertTransactionDetail(p)
    \/ SelectPrice(p)
    \/ UpdateMerchantBalance(p)
    \/ Commit(p)

Next == \E p \in Procs : Create(p)

Spec == Init /\ [][Next]_vars

\* The statement p is at finds no row (sql.ErrNoRows): the error is the
\* answer of a store that works.
RowNotFound(p) ==
    \/ pc[p] = "balance" /\ payload[p].MerchantId \notin MerchantRows
    \/ /\ pc[p] \in {"nominal", "price"}
       /\ payload[p].TransactionDetail[idx[p]].ProductId \notin ProductRows

\* A step of p's Create in which the store operation returns its answer,
\* not a failure of the store.
Proceed(p) == Create(p) /\ (ret'[p].err = "storage" => RowNotFound(p))

\* Every goroutine keeps running and every store operation returns: a call
\* whose next statement can be answered is not held back for ever.  (The
\* store may still fail any operation.)
Fairness == \A p \in Procs : WF_vars(Proceed(p))

SpecFair == Init /\ [][Next]_vars /\ Fairness

(***************************************************************************)
(* The read paths: GetAll and GetById.                                     *)
(***************************************************************************)
\* One row of the join of transactions, mst_user, mst_merchant,
\* transaction_detail and mst_product.
JoinRow(t, l) ==
    [transaction_id |-> t.transaction_id, customer_name |-> t.customer_name,
     destination_number |-> t.destination_number,
     transaction_date |-> t.transaction_date,
     id_user |-> t.id_user, id_merchant |-> t.id_merchant,
     transaction_detail_id |-> l.transaction_detail_id,
     td_transaction_id |-> l.transaction_id,
     id_product |-> l.id_product, nominal |-> mst_product[l.id_product].nominal,
     price |-> mst_product[l.id_product].price]

JoinRows ==
    {JoinRow(t, l) : <<t, l>> \in
        {x \in transactions \X transaction_detail :
            /\ x[2].transaction_id = x[1].transaction_id
            /\ x[1].id_user \in Users
            /\ x[1].id_merchant \in MerchantRows
            /\ x[2].id_product \in ProductRows}}

\* WHERE m.id_merchant = (SELECT m.id_merchant FROM mst_merchant m WHERE m.id_user = $1)
GetAllRows(userId) ==
    {r \in JoinRows : MerchantOwner[r.id_merchant] = userId}

\* WHERE t.transaction_id = $1
GetByIdRows(id) == {r \in JoinRows : r.transaction_id = id}

\* The rows the cursor may move to next: under ORDER BY t.transaction_date
\* DESC one of the latest date left, without ORDER BY any row left.
NextRows(rest, ordered) ==
    IF ordered
    THEN {r \in rest : \A o \in rest :
             DateKey(o.transaction_date) <= DateKey(r.transaction_date)}
    ELSE rest

\* The orders in which range visits the keys of a Go map: any.
RangeOrders(keys) ==
    {f \in [1..Cardinality(keys) -> keys] :
        \A i \in DOMAIN f : \A j \in DOMAIN f : i # j => f[i] # f[j]}

\* The fields GetAll scans out of a row.
ScannedTransaction(r) ==
    [TransactionsId |-> r.transaction_id, CustomerName |-> r.customer_name,
     DestinationNumber |-> r.destination_number,
     TransactionDate |-> r.transaction_date, User |-> [Id_user |-> ""],
     Merchant |-> [IdMerchant |-> ""], TransactionDetail |-> <<>>]

ScannedProduct(r) ==
    [IdProduct |-> r.id_product, Nominal |-> r.nominal, Price |-> r.price]

\* transactionDetail of GetAll: the line id, the order id, the product.
GetAllDetail(r) ==
    [TransactionDetailId |-> r.transaction_detail_id,
     TransactionsId |-> r.td_transaction_id, Product |-> ScannedProduct(r)]

\* transactionDetail of GetById: its query selects no td.transaction_id.
GetByIdDetail(r) ==
    [TransactionDetailId |-> r.transaction_detail_id,
     TransactionsId |-> NoId, Product |-> ScannedProduct(r)]

ReadReturn(result, err) ==
    rd' = [rd EXCEPT !.pc = "done", !.result = result, !.err = err]

\* rows, err := r.db.Query(selectQuery, userId)
GetAllQuery(userId) ==
    /\ rd.op = None
    /\ \/ rd' = [NoRead EXCEPT !.op = "GetAll", !.param = userId, !.pc = "done",
                               !.result = None, !.err = "storage"]
       \/ rd' = [NoRead EXCEPT !.op = "GetAll", !.param = userId, !.pc = "next",
                               !.rest = GetAllRows(userId)]
    /\ UNCHANGED <<storeVars, createVars, dt>>

\* Mutant: the row's line replaces the aggregate's lines.
GroupRowOverwrites(m, r) ==
    LET id == r.transaction_id IN
    (id :> [ScannedTransaction(r) EXCEPT
              !.User = [Id_user |-> r.id_user],
              !.Merchant = [IdMerchant |-> r.id_merchant],
              !.TransactionDetail = <<GetAllDetail(r)>>]) @@ m

\* transactionMap after the row is grouped: the line is appended to the
\* aggregate of its order id, or a new aggregate is entered under that id.
GroupRow(m, r) ==
    LET id == r.transaction_id IN
    IF id \in DOMAIN m
    THEN [m EXCEPT ![id].TransactionDetail = Append(@, GetAllDetail(r))]
    ELSE (id :> [ScannedTransaction(r) EXCEPT
                   !.User = [Id_user |-> r.id_user],
                   !.Merchant = [IdMerchant |-> r.id_merchant],
                   !.TransactionDetail = <<GetAllDetail(r)>>]) @@ m

\* for rows.Next(): the cursor moves on, or the rows are over (then
\* rows.Err() is checked and the map is flattened), or the iteration fails.
GetAllNext ==
    /\ rd.op = "GetAll" /\ rd.pc = "next"
    /\ \/ \E r \in NextRows(rd.rest, TRUE) :
            rd' = [rd EXCEPT !.cur = r, !.rest = @ \ {r},
                             !.delivered = Append(@, r), !.pc = "scan"]
       \/ /\ rd.rest = {}
          /\ \E f \in RangeOrders(DOMAIN rd.map) :
                ReadReturn([k \in DOMAIN f |-> rd.map[f[k]]], None)
       \/ rd' = [rd EXCEPT !.rowsErr = TRUE, !.pc = "done", !.result = None,
                           !.err = "storage"]
    /\ UNCHANGED <<storeVars, createVars, dt>>

\* rows.Scan(...) and the grouping of the scanned row.
GetAllScan ==
    /\ rd.op = "GetAll" /\ rd.pc = "scan"
    /\ \/ ReadReturn(None, "storage")
       \/ rd' = [rd EXCEPT !.map = GroupRow(rd.map, rd.cur), !.pc = "next"]
    /\ UNCHANGED <<storeVars, createVars, dt>>

\* rows, err := r.db.Query(selectQuery, id)
GetByIdQuery(id) ==
    /\ rd.op = None
    /\ \/ rd' = [NoRead EXCEPT !.op = "GetById", !.param = id, !.pc = "done",
                               !.result = ZeroTransactionsReq, !.err = "storage"]
       \/ rd' = [NoRead EXCEPT !.op = "GetById", !.param = id, !.pc = "next",
                               !.rest = GetByIdRows(id)]
    /\ UNCHANGED <<storeVars, createVars, dt>>

\* Mutant: an order without rows is reported as an error.
GetByIdFlattenNotFound(rowsErr) ==
    IF DOMAIN rd.map = {}
    THEN rd' = [rd EXCEPT !.rowsErr = rowsErr, !.pc = "done", !.err = "notfound",
                          !.result = ZeroTransactionsReq]
    ELSE \E f \in RangeOrders(DOMAIN rd.map) :
            rd' = [rd EXCEPT !.rowsErr = rowsErr, !.pc = "done", !.err = None,
                      !.result = [rd.transaction EXCEPT !.TransactionDetail =
                                     @ \o [k \in DOMAIN f |-> rd.map[f[k]]]]]

\* The loop is left: the map of lines is flattened in range order and the
\* aggregate returned with a nil error.
GetByIdFlatten(rowsErr) ==
    \E f \in RangeOrders(DOMAIN rd.map) :
        rd' = [rd EXCEPT !.rowsErr = rowsErr, !.pc = "done", !.err = None,
                  !.result = [rd.transaction EXCEPT !.TransactionDetail =
                                 @ \o [k \in DOMAIN f |-> rd.map[f[k]]]]]

\* for rows.Next(): the loop condition.
GetByIdNext ==
    /\ rd.op = "GetById" /\ rd.pc = "next"
    /\ \/ \E r \in NextRows(rd.rest, FALSE) :
            rd' = [rd EXCEPT !.cur = r, !.rest = @ \ {r},
                             !.delivered = Append(@, r), !.pc = "scan"]
       \/ /\ rd.rest = {}
          /\ GetByIdFlatten(FALSE)
       \/ GetByIdFlatten(TRUE)
    /\ UNCHANGED <<storeVars, createVars, dt>>

\* rows.Scan(...): the header fields are rescanned, the line is stored in
\* transactionDetailMap under its line id.
GetByIdScan ==
    /\ rd.op = "GetById" /\ rd.pc = "scan"
    /\ \/ ReadReturn(ZeroTransactionsReq, "storage")
       \/ rd' = [rd EXCEPT
             !.transaction = [ScannedTransaction(rd.cur) EXCEPT
                                !.User = [Id_user |-> rd.cur.id_user],
                                !.Merchant = [IdMerchant |-> rd.cur.id_merchant],
                                !.TransactionDetail = rd.transaction.TransactionDetail],
             !.map = (rd.cur.transaction_detail_id :> GetByIdDetail(rd.cur)) @@ rd.map,
             !.pc = "more"]
    /\ UNCHANGED <<storeVars, createVars, dt>>

\* if !rows.Next() { break }: the cursor moves on a second time in the same
\* turn of the loop.
GetByIdMore ==
    /\ rd.op = "GetById" /\ rd.pc = "more"
    /\ \/ \E r \in NextRows(rd.rest, FALSE) :
            rd' = [rd EXCEPT !.cur = r, !.rest = @ \ {r},
                             !.delivered = Append(@, r), !.pc = "next"]
       \/ /\ rd.rest = {}
          /\ GetByIdFlatten(FALSE)
       \/ GetByIdFlatten(TRUE)
    /\ UNCHANGED <<storeVars, createVars, dt>>

\* Identifiers a caller asks GetById for: those of the orders and one more.
ReadIds == 1..(MaxOrders + 1)

\* Users a caller asks GetAll for: "u0" owns no merchant.
ReadUsers == Users \cup {"u0"}

NextRead ==
    \/ \E u \in ReadUsers : GetAllQuery(u)
    \/ GetAllNext
    \/ GetAllScan
    \/ \E id \in ReadIds : GetByIdQuery(id)
    \/ GetByIdNext
    \/ GetByIdScan
    \/ GetByIdMore

(***************************************************************************)
(* The stores the read paths start from: MaxOrders orders committed one    *)
(* after the other, order k with shape[k] lines, at most MaxRows lines in   *)
(* all.  (The balances that paid for them are not part of what is read.)   *)
(***************************************************************************)
RECURSIVE LinesBefore(_, _)
LinesBefore(shape, k) == IF k <= 1 THEN 0 ELSE shape[k - 1] + LinesBefore(shape, k - 1)

StoreShapes ==
    {shape \in [1..MaxOrders -> 0..MaxRows] : LinesBefore(shape, MaxOrders + 1) <= MaxRows}

StoreDates == {ParseDate(MainDate), [ParseDate(MainDate) EXCEPT !.month = 2, !.day = 29]}

StoredTransactions(merchant, date) ==
    {[transaction_id |-> k, id_merchant |-> merchant[k], id_user |-> "u1",
      customer_name |-> "budi", destination_number |-> "0812",
      transaction_date |-> date[k]] : k \in 1..MaxOrders}

StoredDetails(shape) ==
    UNION {{[transaction_detail_id |-> LinesBefore(shape, k) + j,
             transaction_id |-> k,
             id_product |-> IF (LinesBefore(shape, k) + j) % 2 = 1 THEN "p1" ELSE "p2",
             price |-> 99] : j \in 1..shape[k]} : k \in 1..MaxOrders}

InitRead ==
    /\ \E shape \in StoreShapes :
       \E merchant \in [1..MaxOrders -> MerchantRows] :
       \E date \in [1..MaxOrders -> StoreDates] :
          /\ transactions = StoredTransactions(merchant, date)
          /\ transaction_detail = StoredDetails(shape)
          /\ nextDetailId = LinesBefore(shape, MaxOrders + 1) + 1
    /\ nextTransactionId = MaxOrders + 1
    /\ balance = InitBalance
    /\ mst_product = InitProducts
    /\ lock = [m \in MerchantRows |-> None]
    /\ InitCreate
    /\ rd = NoRead
    /\ dt = NoDateRun

SpecRead == InitRead /\ [][NextRead]_vars

(***************************************************************************)
(* Submissions and reads against one store: the repository serves Create,  *)
(* GetAll and GetById on the same database handle.                         *)
(***************************************************************************)
\* Every request's Create has returned.
AllReturned == \A p \in Procs : pc[p] = "done"

\* The submissions run concurrently; a read is served on the store they
\* leave behind.
NextFrame == Next \/ (AllReturned /\ NextRead)

SpecFrame == Init /\ [][NextFrame]_vars

(***************************************************************************)
(* The way of a date string through Create: time.Parse on entry,           *)
(* Time.Format on the order returned; the string returned is then parsed   *)
(* as a caller would send it back.                                         *)
(***************************************************************************)
DayParts == { <<"0", "0">>, <<"0", "1">>, <<"2", "8">>, <<"2", "9">>,
              <<"3", "0">>, <<"3", "1">>, <<"3", "2">> }
MonthParts == { <<"0", "0">>, <<"0", "1">>, <<"0", "2">>, <<"0", "4">>,
                <<"1", "2">>, <<"1", "3">> }
YearParts == { <<"0", "0", "0", "0">>, <<"0", "9", "9", "9">>,
               <<"1", "9", "0", "0">>, <<"2", "0", "0", "0">>,
               <<"2", "0", "2", "3">>, <<"2", "0", "2", "4">>,
               <<"9", "9", "9", "9">> }
Separators == {"-", "/"}

\* Date strings a caller sends: every day, month and year part under each
\* separator, and the strings of GoodDates and BadDates.
DateStrings ==
    { d \o <<x>> \o m \o <<x>> \o y :
        <<d, m, y, x>> \in DayParts \X MonthParts \X YearParts \X Separators }
    \cup GoodDates \cup BadDates

\* parsedDate, err := time.Parse("02-01-2006", payload.TransactionDate)
DateParse ==
    /\ dt.pc = "parse"
    /\ LET d == ParseDate(dt.in) IN
       dt' = [dt EXCEPT !.parsed = d, !.pc = IF d.ok THEN "format" ELSE "rejected"]
    /\ UNCHANGED <<storeVars, createVars, rd>>

\* payload.TransactionDate = parsedDate.Format("02-01-2006")
DateFormat ==
    /\ dt.pc = "format"
    /\ dt' = [dt EXCEPT !.out = FormatDate(dt.parsed), !.pc = "reparse"]
    /\ UNCHANGED <<storeVars, createVars, rd>>

\* The returned string is parsed under the same layout.
DateReparse ==
    /\ dt.pc = "reparse"
    /\ dt' = [dt EXCEPT !.reparsed = ParseDate(dt.out), !.pc = "done"]
    /\ UNCHANGED <<storeVars, createVars, rd>>

NextDate == DateParse \/ DateFormat \/ DateReparse

InitDate ==
    /\ InitStore /\ InitCreate /\ rd = NoRead
    /\ \E s \in DateStrings : dt = [NoDateRun EXCEPT !.pc = "parse", !.in = s]

SpecDate == InitDate /\ [][NextDate]_vars

(***************************************************************************)
(* Properties of Create.                                                   *)
(***************************************************************************)
RECURSIVE SumNominal(_)
\* Sum of the catalog nominal values of a line list.
SumNominal(d) ==
    IF d = <<>> THEN 0 ELSE ProductNominal[Head(d).ProductId] + SumNominal(Tail(d))

AllProductsExist(d) == \A k \in 1..Len(d) : d[k].ProductId \in ProductRows

DigitChars == {"0", "1", "2", "3", "4", "5", "6", "7", "8", "9"}

MonthLength == <<31, 28, 31, 30, 31, 30, 31, 31, 30, 31, 30, 31>>

\* The day-month-year format: dd-mm-yyyy naming a day of the calendar.
IsDayMonthYear(s) ==
    /\ Len(s) = 10
    /\ s[3] = "-" /\ s[6] = "-"
    /\ \A k \in {1, 2, 4, 5, 7, 8, 9, 10} : s[k] \in DigitChars
    /\ LET dd == 10 * DigitVal(s[1]) + DigitVal(s[2])
           mm == 10 * DigitVal(s[4]) + DigitVal(s[5])
           yy == 1000 * DigitVal(s[7]) + 100 * DigitVal(s[8])
                 + 10 * DigitVal(s[9]) + DigitVal(s[10])
           leapDay == IF mm = 2 /\ (yy % 400 = 0 \/ (yy % 4 = 0 /\ yy % 100 # 0))
                      THEN 1 ELSE 0
       IN mm \in 1..12 /\ dd >= 1 /\ dd <= MonthLength[mm] + leapDay

\* Create returns in this step.
Returns(p) == pc[p] # "done" /\ pc'[p] = "done"

CommittedUnchanged ==
    /\ balance' = balance
    /\ transactions' = transactions
    /\ transaction_detail' = transaction_detail

\* C1: a Create that returns success has debited the merchant by exactly the
\* sum of the catalog nominal values of its lines (a sum of at most the
\* balance read under the lock, equality included), and has added exactly
\* one header and one line row per line, all referencing that header; and a
\* call with a valid date, an existing merchant and existing products whose
\* sum is at most the balance read under the lock returns success unless a
\* store operation fails.
C1_CommitDebitsAndInserts ==
    [][\A p \in Procs :
        LET m == arg[p].MerchantId
            d == arg[p].TransactionDetail
            newHeaders == transactions' \ transactions
            newLines == transaction_detail' \ transaction_detail
        IN /\ (Returns(p) /\ ret'[p].err = None) =>
                /\ m \in MerchantRows
                /\ AllProductsExist(d)
                /\ currentBalance[p] = balance[m]
                /\ SumNominal(d) <= balance[m]
                /\ balance'[m] = balance[m] - SumNominal(d)
                /\ \A o \in MerchantRows \ {m} : balance'[o] = balance[o]
                /\ Cardinality(newHeaders) = 1
                /\ Cardinality(newLines) = Len(d)
                /\ \A h \in newHeaders : \A l \in newLines :
                      l.transaction_id = h.transaction_id
           /\ (/\ Returns(p)
               /\ pc[p] \notin {"idle", "begin", "balance"}
               /\ ret'[p].err # "storage"
               /\ AllProductsExist(d)
               /\ SumNominal(d) <= currentBalance[p]) => ret'[p].err = None
      ]_vars

\* C1 witness: a two-line order whose nominal sum equals the balance has
\* been committed.
C1_Witness ==
    \E p \in Procs :
        /\ pc[p] = "done" /\ ret[p].err = None
        /\ Len(arg[p].TransactionDetail) = 2
        /\ SumNominal(arg[p].TransactionDetail) = InitBalance[arg[p].MerchantId]
        /\ balance[arg[p].MerchantId] = 0
        /\ Cardinality(transactions) = 1
        /\ Cardinality(transaction_detail) = 2

\* C2: a Create whose lines' catalog nominal sum is greater than the balance
\* it read under the lock returns the insufficient-funds error, and in
\* returning leaves no header, no line and the balance as they were.
C2_InsufficientFundsRejected ==
    [][\A p \in Procs :
        (/\ pc[p] = "funds" /\ pc'[p] # "funds"
         /\ SumNominal(arg[p].TransactionDetail) > currentBalance[p]) =>
            /\ pc'[p] = "done"
            /\ ret'[p] = [order |-> ZeroTransactions, err |-> "insufficient"]
            /\ CommittedUnchanged
            /\ txn'[p].transactions = {} /\ txn'[p].transaction_detail = {}
            /\ txn'[p].balance = NoBalance
            /\ \A h \in transactions' : h.transaction_id # payload'[p].TransactionsId
      ]_vars

\* C2 witness: an order was rejected for insufficient funds.
C2_Witness ==
    \E p \in Procs :
        /\ pc[p] = "done" /\ ret[p].err = "insufficient"
        /\ SumNominal(arg[p].TransactionDetail) > balance[arg[p].MerchantId]

\* C3: of two Create calls against one merchant with balance B, each with a
\* nominal sum of at most B and together more than B, none failing in the
\* store, exactly one commits and the other returns insufficient funds, and
\* the balance ends as B minus the sum of the one that committed.
C3_ExactlyOneCommits ==
    \A p \in Procs : \A q \in Procs \ {p} :
        LET m == arg[p].MerchantId
            tp == SumNominal(arg[p].TransactionDetail)
            tq == SumNominal(arg[q].TransactionDetail)
        IN (/\ pc[p] = "done" /\ pc[q] = "done"
            /\ m \in MerchantRows /\ arg[q].MerchantId = m
            /\ IsDayMonthYear(arg[p].TransactionDate)
            /\ IsDayMonthYear(arg[q].TransactionDate)
            /\ AllProductsExist(arg[p].TransactionDetail)
            /\ AllProductsExist(arg[q].TransactionDetail)
            /\ tp <= InitBalance[m] /\ tq <= InitBalance[m]
            /\ tp + tq > InitBalance[m]
            /\ ret[p].err # "storage" /\ ret[q].err # "storage")
           => \/ /\ ret[p].err = None /\ ret[q].err = "insufficient"
                 /\ balance[m] = InitBalance[m] - tp
              \/ /\ ret[q].err = None /\ ret[p].err = "insufficient"
                 /\ balance[m] = InitBalance[m] - tq

\* C3 witness: both calls started on the same balance (so the loser started
\* before the winner committed), one committed, the other was rejected.
C3_Witness ==
    \E p \in Procs : \E q \in Procs \ {p} :
        /\ pc[p] = "done" /\ pc[q] = "done"
        /\ arg[p].MerchantId = "m1" /\ arg[q].MerchantId = "m1"
        /\ startBal[p] = InitBalance["m1"] /\ startBal[q] = InitBalance["m1"]
        /\ ret[p].err = None /\ ret[q].err = "insufficient"
        /\ SumNominal(arg[p].TransactionDetail) > 0
        /\ SumNominal(arg[q].TransactionDetail) <= InitBalance["m1"]

\* C4: a Create that returns an error after its transaction was begun leaves
\* the committed balance, headers and lines as they were, keeps no
\* uncommitted write, and no committed row carries an identifier generated
\* for that submission.
C4_ErrorLeavesStoreUnchanged ==
    [][\A p \in Procs :
        (/\ Returns(p)
         /\ pc[p] \notin {"idle", "begin"}
         /\ ret'[p].err # None) =>
            /\ CommittedUnchanged
            /\ txn'[p].transactions = {} /\ txn'[p].transaction_detail = {}
            /\ txn'[p].balance = NoBalance
            /\ \A h \in transactions' :
                  payload[p].TransactionsId = NoId
                  \/ h.transaction_id # payload[p].TransactionsId
            /\ \A l \in transaction_detail' :
                  payload[p].TransactionsId = NoId
                  \/ l.transaction_id # payload[p].TransactionsId
      ]_vars

\* C4 witness: a call failed after inserting its header and a line.
C4_Witness ==
    \E p \in Procs :
        /\ pc[p] = "done" /\ ret[p].err = "storage"
        /\ payload[p].TransactionsId # NoId
        /\ Len(payload[p].TransactionDetail) >= 1
        /\ payload[p].TransactionDetail[1].TransactionDetailId # NoId

\* C5: a Create whose date string is not in day-month-year format returns
\* the validation error having issued no store operation: no transaction
\* begun, no row lock held.
C5_BadDateTouchesNoStore ==
    \A p \in Procs :
        (pc[p] # "idle" /\ ~IsDayMonthYear(arg[p].TransactionDate)) =>
            /\ pc[p] = "done"
            /\ ret[p] = [order |-> ZeroTransactions, err |-> "validation"]
            /\ ops[p] = 0
            /\ txn[p].state = "none"
            /\ \A m \in MerchantRows : lock[m] # p

\* C5 witness: the order dated "2024-01-15" was rejected.
C5_Witness ==
    \E p \in Procs :
        /\ pc[p] = "done" /\ ret[p].err = "validation"
        /\ arg[p].TransactionDate =
              << "2", "0", "2", "4", "-", "0", "1", "-", "1", "5" >>

\* C6: every line of the order a successful Create returns carries the
\* catalog sell price of its product, whatever price the caller sent.
C6_ReturnedPriceIsCatalogPrice ==
    \A p \in Procs :
        (pc[p] = "done" /\ ret[p].err = None) =>
            /\ Len(ret[p].order.TransactionDetail) = Len(arg[p].TransactionDetail)
            /\ \A k \in 1..Len(arg[p].TransactionDetail) :
                  /\ ret[p].order.TransactionDetail[k].ProductId =
                        arg[p].TransactionDetail[k].ProductId
                  /\ ret[p].order.TransactionDetail[k].Price =
                        ProductPrice[arg[p].TransactionDetail[k].ProductId]

\* C6 witness: a returned two-line order of two products, sent with another
\* price.
C6_Witness ==
    \E p \in Procs :
        /\ pc[p] = "done" /\ ret[p].err = None
        /\ Len(arg[p].TransactionDetail) = 2
        /\ arg[p].TransactionDetail[1].ProductId # arg[p].TransactionDetail[2].ProductId
        /\ \A k \in 1..2 :
              arg[p].TransactionDetail[k].Price #
                 ProductPrice[arg[p].TransactionDetail[k].ProductId]

\* C7: every committed merchant balance is at least zero.
C7_BalanceNeverNegative == \A m \in MerchantRows : balance[m] >= 0

\* C7 witness: two calls that overlapped both committed and used the
\* balance up.
C7_Witness ==
    /\ \A p \in Procs :
          /\ pc[p] = "done" /\ ret[p].err = None
          /\ arg[p].MerchantId = "m1"
          /\ startBal[p] = InitBalance["m1"]
    /\ balance["m1"] = 0

\* C14: the price of every committed transaction_detail row is the catalog
\* sell price of the row's product, whatever price the caller sent.
C14_StoredPriceIsCatalogPrice ==
    \A l \in transaction_detail :
        /\ l.id_product \in ProductRows
        /\ l.price = ProductPrice[l.id_product]

\* The positions of Create at which its transaction holds a merchant row lock.
LockedPositions == {"nominal", "funds", "header", "line", "price", "update", "commit"}

\* C15: while p holds the lock of merchant m (taken by its balance read,
\* kept until its commit or rollback), no other Create reads m's balance
\* for its funds check, none debits m, and the committed balance of m does
\* not change except by p's commit; and a commit debits the very balance p
\* compared with totalNominal.
C15_CheckAndDebitUnderOneLock ==
    [][\A p \in Procs :
        /\ \A m \in MerchantRows :
              (lock[m] = p) =>
                 /\ pc[p] \in LockedPositions
                 /\ txn[p].state = "open"
                 /\ payload[p].MerchantId = m
                 /\ lock'[m] \in {p, None}
                 /\ (lock'[m] = None) => txn'[p].state \in {"committed", "rolledback"}
                 /\ (balance'[m] # balance[m]) => (pc[p] = "commit" /\ pc'[p] = "done")
                 /\ \A q \in Procs \ {p} :
                       (payload[q].MerchantId = m) =>
                          /\ ~(pc[q] = "balance" /\ pc'[q] \in LockedPositions)
                          /\ ~(pc[q] = "update" /\ pc'[q] = "commit")
                          /\ currentBalance'[q] = currentBalance[q]
        /\ (pc[p] \in LockedPositions /\ pc'[p] \in LockedPositions) =>
              lock'[payload[p].MerchantId] = p
        /\ (pc[p] = "commit" /\ pc'[p] = "done" /\ ret'[p].err = None) =>
              /\ lock[payload[p].MerchantId] = p
              /\ balance[payload[p].MerchantId] = currentBalance[p]
              /\ totalNominal[p] <= currentBalance[p]
              /\ balance'[payload[p].MerchantId] = currentBalance[p] - totalNominal[p]
      ]_vars

\* C15 witness: one Create is about to commit its debit under the lock of
\* m1 while the other, for the same merchant, waits at its balance read.
C15_Witness ==
    \E p \in Procs : \E q \in Procs \ {p} :
        /\ lock["m1"] = p /\ pc[p] = "commit" /\ totalNominal[p] > 0
        /\ pc[q] = "balance" /\ payload[q].MerchantId = "m1"

RECURSIVE SumDebits(_)
\* Sum of the totalNominal of a set of calls.
SumDebits(S) ==
    IF S = {} THEN 0
    ELSE LET p == CHOOSE x \in S : TRUE IN totalNominal[p] + SumDebits(S \ {p})

\* The calls for merchant m that committed.
CommittedCalls(m) ==
    {p \in Procs : pc[p] = "done" /\ ret[p].err = None /\ arg[p].MerchantId = m}

\* C16: the committed balance of every merchant is its initial balance
\* minus the sum of the totalNominal of the calls that committed against
\* it: no committed debit is lost, no call that did not commit changes it.
C16_BalanceIsInitialMinusCommitted ==
    \A m \in MerchantRows :
        balance[m] = InitBalance[m] - SumDebits(CommittedCalls(m))

\* C16 witness: of two overlapping calls against m1, one committed a debit
\* of 5 and the other was rolled back after inserting its header with a
\* totalNominal of 10.
C16_Witness ==
    \E p \in Procs : \E q \in Procs \ {p} :
        /\ pc[p] = "done" /\ pc[q] = "done"
        /\ arg[p].MerchantId = "m1" /\ arg[q].MerchantId = "m1"
        /\ startBal[p] = InitBalance["m1"] /\ startBal[q] = InitBalance["m1"]
        /\ ret[p].err = None /\ totalNominal[p] = 5
        /\ ret[q].err = "storage" /\ totalNominal[q] = 10
        /\ payload[q].TransactionsId # NoId
        /\ balance["m1"] = InitBalance["m1"] - 5

\* C17: every committed order header has at least one committed order line.
C17_EveryHeaderHasALine ==
    \A h \in transactions :
        \E l \in transaction_detail : l.transaction_id = h.transaction_id

\* C20: the transaction a Create begins is ended exactly once, by commit or
\* by rollback, before Create returns: an ended transaction is never ended
\* again or reopened, a returning Create leaves no transaction open and
\* holds no merchant row lock, and a Create that has returned holds none.
C20_TransactionEndedOnce ==
    [][\A p \in Procs :
        /\ (txn[p].state \in {"committed", "rolledback"}) => txn'[p] = txn[p]
        /\ (txn[p].state = "none" /\ txn'[p].state # "none") =>
              (pc[p] = "begin" /\ txn'[p].state = "open")
        /\ (txn[p].state = "open" /\ txn'[p].state # "open") => Returns(p)
        /\ Returns(p) =>
              /\ txn'[p].state # "open"
              /\ (txn[p].state = "open") => txn'[p].state \in {"committed", "rolledback"}
              /\ (ret'[p].err = None) => txn'[p].state = "committed"
              /\ (ret'[p].err # None) => txn'[p].state # "committed"
              /\ \A m \in MerchantRows : lock'[m] # p
        /\ (pc[p] = "done") =>
              /\ txn[p].state # "open"
              /\ \A m \in MerchantRows : lock[m] # p
      ]_vars

\* C20 witness: both calls have returned, one after its commit, the other
\* after a rollback under the lock; no lock is held.
C20_Witness ==
    /\ \E p \in Procs : \E q \in Procs \ {p} :
          /\ pc[p] = "done" /\ txn[p].state = "committed"
          /\ pc[q] = "done" /\ txn[q].state = "rolledback"
          /\ currentBalance[q] > 0
    /\ \A m \in MerchantRows : lock[m] = None

\* The step is one of request p's Create.
StepOf(p) == pc'[p] # pc[p] \/ ops'[p] # ops[p]

\* The step is one of GetAll or GetById.
ReadStep == rd' # rd

\* C19: no step of a Create for merchant M, on its way to success or to an
\* error, changes the balance of another merchant or a row of mst_product;
\* no step of GetAll or GetById changes a row of any table, takes a row lock
\* or draws an identifier.
C19_FrameOfCreateAndReads ==
    [][/\ \A p \in Procs :
            StepOf(p) =>
               /\ \A o \in MerchantRows \ {arg'[p].MerchantId} : balance'[o] = balance[o]
               /\ mst_product' = mst_product
               /\ DOMAIN balance' = MerchantRows
       /\ ReadStep =>
            /\ balance' = balance
            /\ mst_product' = mst_product
            /\ transactions' = transactions
            /\ transaction_detail' = transaction_detail
            /\ lock' = lock
            /\ nextTransactionId' = nextTransactionId
            /\ nextDetailId' = nextDetailId
      ]_vars

\* C19 witness: a Create for m1 committed a debit, a Create for m2 was
\* rejected for insufficient funds, and a GetAll then returned m1's order;
\* m2's balance and the catalog are as at the start.
C19_Witness ==
    /\ \E p \in Procs : \E q \in Procs \ {p} :
          /\ pc[p] = "done" /\ arg[p].MerchantId = "m1" /\ ret[p].err = None
          /\ totalNominal[p] > 0
          /\ pc[q] = "done" /\ arg[q].MerchantId = "m2" /\ ret[q].err = "insufficient"
    /\ balance["m1"] < InitBalance["m1"]
    /\ balance["m2"] = InitBalance["m2"]
    /\ mst_product = InitProducts
    /\ rd.op = "GetAll" /\ rd.pc = "done" /\ rd.err = None /\ Len(rd.result) = 1

\* C21: under fair scheduling every Create call returns, holding no lock;
\* so a call that waits at its balance read for a merchant row lock gets
\* past it, and no state is reached from which the calls cannot go on (a
\* call holds the lock of one merchant row only, so no call waits for a
\* call that waits).
C21_EveryCallReturns ==
    \A p \in Procs : <>(pc[p] = "done" /\ \A m \in MerchantRows : lock[m] # p)

\* C21 witness: both calls have returned with a commit on m1; the second
\* began before the first committed and read the balance the first left,
\* so it got the lock after the first released it.
C21_Witness ==
    \E p \in Procs : \E q \in Procs \ {p} :
        /\ pc[p] = "done" /\ pc[q] = "done"
        /\ arg[p].MerchantId = "m1" /\ arg[q].MerchantId = "m1"
        /\ ret[p].err = None /\ ret[q].err = None
        /\ totalNominal[p] > 0
        /\ startBal[q] = InitBalance["m1"]
        /\ currentBalance[q] = InitBalance["m1"] - totalNominal[p]

\* C22: when Create has returned an error, the caller's order is as it
\* was passed in: its lines carry no generated order identifier, no
\* generated line identifier and no catalog price.
C22_ErrorLeavesCallerOrder ==
    \A p \in Procs :
        (pc[p] = "done" /\ ret[p].err # None) =>
            /\ CallerOrder(p) = arg[p]
            /\ \A k \in 1..Len(CallerOrder(p).TransactionDetail) :
                  /\ CallerOrder(p).TransactionDetail[k].TransactionsId = NoId
                  /\ CallerOrder(p).TransactionDetail[k].TransactionDetailId = NoId
                  /\ CallerOrder(p).TransactionDetail[k].Price
                        = arg[p].TransactionDetail[k].Price

(***************************************************************************)
(* Properties of the read paths.                                           *)
(***************************************************************************)
\* The line identifiers of a sequence of returned lines.
DetailIds(d) == [k \in DOMAIN d |-> d[k].TransactionDetailId]

\* The line identifiers of the rows of order id, in the order of the rows.
RowDetailIds(rows, id) ==
    LET OfOrder(r) == r.transaction_id = id
        sub == SelectSeq(rows, OfOrder)
    IN [k \in DOMAIN sub |-> sub[k].transaction_detail_id]

\* C8: for an order with N >= 1 line rows, GetById returns an aggregate
\* with exactly N lines, one for each line identifier of the order.
C8_GetByIdReturnsEveryLine ==
    (/\ rd.op = "GetById" /\ rd.pc = "done"
     /\ rd.err = None /\ ~rd.rowsErr
     /\ GetByIdRows(rd.param) # {}) =>
        /\ Len(rd.result.TransactionDetail) = Cardinality(GetByIdRows(rd.param))
        /\ {rd.result.TransactionDetail[k].TransactionDetailId :
               k \in 1..Len(rd.result.TransactionDetail)}
           = {r.transaction_detail_id : r \in GetByIdRows(rd.param)}

\* C9: the list GetAll returns is in descending order of transaction date.
C9_GetAllOrderedByDateDesc ==
    (rd.op = "GetAll" /\ rd.pc = "done" /\ rd.err = None) =>
        \A i \in 1..Len(rd.result) : \A j \in 1..Len(rd.result) :
            i < j => DateKey(rd.result[i].TransactionDate)
                        >= DateKey(rd.result[j].TransactionDate)

\* C10: the list GetAll returns holds exactly one aggregate per order
\* identifier of the rows the store returned, and the lines of each
\* aggregate are the lines of the rows of that order, once per row, in the
\* order of the rows.
C10_GetAllGroupsRowsByOrder ==
    (rd.op = "GetAll" /\ rd.pc = "done" /\ rd.err = None) =>
        LET ids == {rd.delivered[k].transaction_id : k \in 1..Len(rd.delivered)}
        IN /\ Len(rd.result) = Cardinality(ids)
           /\ {rd.result[k].TransactionsId : k \in 1..Len(rd.result)} = ids
           /\ \A k \in 1..Len(rd.result) :
                 DetailIds(rd.result[k].TransactionDetail)
                    = RowDetailIds(rd.delivered, rd.result[k].TransactionsId)
           /\ {rd.delivered[k] : k \in 1..Len(rd.delivered)} = GetAllRows(rd.param)

\* C10 witness: the rows of two orders came interleaved, two rows each.
C10_Witness ==
    /\ rd.op = "GetAll" /\ rd.pc = "done" /\ rd.err = None
    /\ Len(rd.delivered) = 4
    /\ rd.delivered[1].transaction_id # rd.delivered[2].transaction_id
    /\ rd.delivered[3].transaction_id = rd.delivered[1].transaction_id
    /\ rd.delivered[4].transaction_id = rd.delivered[2].transaction_id
    /\ rd.delivered[3].transaction_detail_id < rd.delivered[1].transaction_detail_id
    /\ Len(rd.result) = 2

\* C11: a GetById whose query returned zero rows returns the zero aggregate
\* (zero header, user and merchant fields, no lines) and no error.
C11_GetByIdNoRowsReturnsZero ==
    [][(/\ rd.op = "GetById" /\ rd.pc = "next"
        /\ rd.rest = {} /\ rd.delivered = <<>>
        /\ rd'.pc = "done") =>
            /\ rd'.err = None
            /\ rd'.result = ZeroTransactionsReq
            /\ rd'.result.TransactionsId = NoId
            /\ rd'.result.User = [Id_user |-> ""]
            /\ rd'.result.Merchant = [IdMerchant |-> ""]
            /\ rd'.result.TransactionDetail = <<>>
      ]_vars

\* C11 witness: GetById of an identifier no order has, and of an order
\* without lines (its join has no row), returned.
C11_Witness ==
    /\ rd.op = "GetById" /\ rd.pc = "done" /\ ~rd.rowsErr
    /\ rd.delivered = <<>>
    /\ rd.err = None /\ rd.result = ZeroTransactionsReq
    /\ \/ rd.param = MaxOrders + 1
       \/ \E t \in transactions : t.transaction_id = rd.param

\* C12: a read whose iteration over the rows failed returns an error, and
\* no result built from the rows read so far, in GetAll and in GetById alike
\* (a failed query and a failed scan return the error in both).
C12_ReadFailureReturnsError ==
    (rd.pc = "done" /\ rd.rowsErr) =>
        /\ rd.err = "storage"
        /\ rd.result \in {None, ZeroTransactionsReq}

\* The position at which the row of line id came from the store.
RowPosition(rows, id) ==
    CHOOSE k \in 1..Len(rows) : rows[k].transaction_detail_id = id

\* C18: the lines of the aggregate GetById returns are in the order in
\* which their rows came from the store.
C18_GetByIdLinesInRowOrder ==
    (rd.op = "GetById" /\ rd.pc = "done" /\ rd.err = None) =>
        LET lines == rd.result.TransactionDetail IN
        \A i \in 1..Len(lines) : \A j \in 1..Len(lines) :
            (i < j) => RowPosition(rd.delivered, lines[i].TransactionDetailId)
                          < RowPosition(rd.delivered, lines[j].TransactionDetailId)

(***************************************************************************)
(* Properties of the date conversion.                                      *)
(***************************************************************************)
\* The calendar date a dd-mm-yyyy string names, read off its characters.
CalendarDate(s) ==
    [day |-> 10 * DigitVal(s[1]) + DigitVal(s[2]),
     month |-> 10 * DigitVal(s[4]) + DigitVal(s[5]),
     year |-> 1000 * DigitVal(s[7]) + 100 * DigitVal(s[8])
              + 10 * DigitVal(s[9]) + DigitVal(s[10])]

\* C13: for every date string Create accepts, the date string of the order
\* returned is again in day-month-year format, parses under the same rule,
\* and names the calendar date the input names.
C13_DateRoundTrip ==
    (dt.pc = "done") =>
        /\ IsDayMonthYear(dt.in)
        /\ IsDayMonthYear(dt.out)
        /\ dt.reparsed.ok
        /\ dt.reparsed = dt.parsed
        /\ CalendarDate(dt.out) = CalendarDate(dt.in)
        /\ [day |-> dt.reparsed.day, month |-> dt.reparsed.month,
            year |-> dt.reparsed.year] = CalendarDate(dt.in)

\* C13 witness: the leap day 29-02-2000 and the first day of year 0 went
\* through Parse, Format and Parse.
C13_Witness ==
    /\ dt.pc = "done"
    /\ dt.in \in { << "2", "9", "-", "0", "2", "-", "2", "0", "0", "0" >>,
                    << "0", "1", "-", "0", "1", "-", "0", "0", "0", "0" >> }
    /\ dt.out = dt.in

=============================================================================
